---- MODULE Spec2Model ----
(***************************************************************************)
(* A model of webhdfs.py: the WebHDFS client (class WebHDFS), the stream   *)
(* wrapper built on it (class HdfsFileWrapper) and the shared DFS          *)
(* instance.  The HTTP server side (coordinator = name node, data nodes)   *)
(* is the environment: it serves or refuses each request as it pleases.    *)
(***************************************************************************)
EXTENDS Integers, Sequences, FiniteSets, TLC

\* ------------------------------------------------------------------ bounds
\* Longest local source / remote file, in bytes.
MaxLen == 5

\* webhdfs.py:9  TRUNK_SIZE = 1024*1024, scaled down: only its comparison
\* with source and chunk lengths matters.
TRUNK_SIZE == 2

\* webhdfs.py:240  _request(..., expected_code=200, ...)
DEFAULT_EXPECTED_CODE == 200

\* webhdfs.py:36-39, 253: the name node the client was constructed with.
NAMENODE == [host |-> "10.1.1.3", port |-> 50070]

\* The client never looks inside the bytes it moves (it only tests a chunk
\* against ''), so a source is labelled by position: byte i has value i, and
\* a lost, repeated or misplaced byte shows in the content.
Contents == {[i \in 1..n |-> i] : n \in 0..MaxLen}

\* The n bytes that follow the first m of such a content.
Following(m, n) == [i \in 1..n |-> m + i]
Min(a, b) == IF a < b THEN a ELSE b
Max(a, b) == IF a < b THEN b ELSE a

\* Python's None for an optional integer (response.length, length=None).
None == [some |-> FALSE, val |-> 0]
Some(v) == [some |-> TRUE, val |-> v]

\* --------------------------------------------------------- remote namespace
\* Two remote paths are modelled; each is absent, a directory, or a file.
FsPaths == {"/a", "/b"}
NoNode == [type |-> "NONE", data |-> <<>>]
DirNode == [type |-> "DIRECTORY", data |-> <<>>]
FileNode(d) == [type |-> "FILE", data |-> d]
Nodes == {NoNode, DirNode} \cup {FileNode(d) : d \in Contents}

\* ------------------------------------------------------- python file object
\* A readable object with a cursor: the built-in file, or any file-like.
\* kind: "file" (isinstance(f, file)), "uploaded" (has multiple_chunks and
\* chunks, as a Django UploadedFile; cs is its chunk size), "filelike"
\* (neither, e.g. a StringIO).
PyFile(kind, data, cs) ==
    [kind |-> kind, data |-> data, pos |-> 0, cs |-> cs, closed |-> FALSE]

\* f.seek(offset): absolute positioning, past the end is allowed.
file_seek(f, offset) == [f EXCEPT !.pos = offset]

\* The bytes f.read(n) returns: at most n bytes from the cursor.
file_read_data(f, n) ==
    IF f.pos >= Len(f.data) THEN <<>>
    ELSE SubSeq(f.data, f.pos + 1, Min(f.pos + n, Len(f.data)))

\* The file after f.read(n): the cursor moves by the bytes returned.
file_read_next(f, n) == [f EXCEPT !.pos = @ + Len(file_read_data(f, n))]

\* f.read(): everything from the cursor to the end.
file_readall_data(f) == file_read_data(f, Len(f.data) + 1)
file_readall_next(f) == file_read_next(f, Len(f.data) + 1)

file_close(f) == [f EXCEPT !.closed = TRUE]

\* UploadedFile.multiple_chunks(): the size exceeds the chunk size.
multiple_chunks(f) == Len(f.data) > f.cs

\* UploadedFile.chunks(): the content from the start, cs bytes at a time.
RECURSIVE SplitChunks(_, _)
SplitChunks(d, cs) ==
    IF d = <<>> THEN <<>>
    ELSE <<SubSeq(d, 1, Min(cs, Len(d)))>>
         \o SplitChunks(SubSeq(d, Min(cs, Len(d)) + 1, Len(d)), cs)

chunks(f) == SplitChunks(f.data, f.cs)

\* ------------------------------------------------------------ urls, replies
\* A request URL: the remote path, the op= parameter, offset= and length=
\* where given; ctx says whether it starts with WEBHDFS_CONTEXT_ROOT.
Url(path, op) ==
    [ctx |-> FALSE, path |-> path, op |-> op, offset |-> None, length |-> None]

NoLocation == [some |-> FALSE, host |-> "", port |-> "", url |-> Url("", "")]
NoStatus == [type |-> "NONE", length |-> 0]

\* A reply: status line, Content-Length as httplib reports it
\* (response.length), the Location header, the body, and for the status
\* queries the decoded JSON.
Reply(status, length, location, body, json, names) ==
    [status |-> status, length |-> length, location |-> location,
     body |-> body, json |-> json, names |-> names]

NoReply == Reply(0, None, NoLocation, <<>>, NoStatus, <<>>)

\* --------------------------------------------------------------- environment
\* The hosts the coordinator names in a redirect, as seen inside the
\* cluster: one that DATANODES maps and one that it does not.
InternalHosts == {"data-1", "data-3"}
DatanodePort == "50075"

\* Statuses the servers may answer with.
Statuses == {200, 201, 307, 404}

\* How the server answers one request: status 0 serves it (any other value
\* refuses it with that status); host is the data node a redirect names;
\* empty_open is the status the coordinator gives OPEN on a zero-length
\* file.
NameNodeAnswers ==
    [status : {0} \cup Statuses, host : InternalHosts, empty_open : {307, 200}]
DataNodeAnswers ==
    [status : {0} \cup Statuses, host : {""}, empty_open : {307}]

\* The bytes OPEN serves: from offset, at most length (all if absent).
Slice(d, offset, length) ==
    LET from == IF offset.some THEN Max(offset.val, 0) ELSE 0
        upto == IF length.some THEN Min(from + length.val, Len(d)) ELSE Len(d)
    IN IF from >= Len(d) THEN <<>> ELSE SubSeq(d, from + 1, upto)

PlainReply(st) == Reply(st, Some(0), NoLocation, <<>>, NoStatus, <<>>)

RedirectReply(url, ans) ==
    Reply(307, Some(0),
          [some |-> TRUE, host |-> ans.host, port |-> DatanodePort,
           url |-> [url EXCEPT !.ctx = TRUE]],
          <<>>, NoStatus, <<>>)

\* The coordinator's reply to a request it serves, and the namespace after.
NameNodeServe(fs, method, url, ans) ==
    CASE url.op = "MKDIRS" ->
           IF fs[url.path].type = "FILE"
           THEN [reply |-> PlainReply(404), fs |-> fs]
           ELSE [reply |-> PlainReply(200),
                 fs |-> [fs EXCEPT ![url.path] = DirNode]]
      [] url.op = "DELETE" ->
           [reply |-> PlainReply(200), fs |-> [fs EXCEPT ![url.path] = NoNode]]
      [] url.op = "LISTSTATUS" ->
           IF fs[url.path].type = "NONE"
           THEN [reply |-> PlainReply(404), fs |-> fs]
           ELSE [reply |-> Reply(200, None, NoLocation, <<>>,
                                 [type |-> "LIST", length |-> 0],
                                 IF fs[url.path].type = "FILE" THEN <<"">>
                                 ELSE <<>>),
                 fs |-> fs]
      [] url.op = "GETFILESTATUS" ->
           IF fs[url.path].type = "NONE"
           THEN [reply |-> PlainReply(404), fs |-> fs]
           ELSE [reply |-> Reply(200, None, NoLocation, <<>>,
                                 [type |-> fs[url.path].type,
                                  length |-> Len(fs[url.path].data)],
                                 <<>>),
                 fs |-> fs]
      [] url.op = "CREATE" -> [reply |-> RedirectReply(url, ans), fs |-> fs]
      [] url.op = "APPEND" ->
           IF fs[url.path].type # "FILE"
           THEN [reply |-> PlainReply(404), fs |-> fs]
           ELSE [reply |-> RedirectReply(url, ans), fs |-> fs]
      [] url.op = "OPEN" ->
           IF fs[url.path].type # "FILE" \/ (url.offset.some /\ url.offset.val < 0)
           THEN [reply |-> PlainReply(404), fs |-> fs]
           ELSE IF fs[url.path].data = <<>>
                \* webhdfs.py:139-140: no length and no location
                THEN [reply |-> Reply(ans.empty_open, None, NoLocation, <<>>,
                                      NoStatus, <<>>),
                      fs |-> fs]
                ELSE [reply |-> RedirectReply(url, ans), fs |-> fs]
      [] OTHER -> [reply |-> PlainReply(404), fs |-> fs]

\* A data node's reply to a redirected request, and the namespace after.
DataNodeServe(fs, method, url, body) ==
    CASE url.op = "CREATE" /\ method = "PUT" ->
           [reply |-> PlainReply(201),
            fs |-> [fs EXCEPT ![url.path] = FileNode(body)]]
      [] url.op = "APPEND" /\ method = "POST" ->
           IF fs[url.path].type # "FILE"
           THEN [reply |-> PlainReply(404), fs |-> fs]
           ELSE [reply |-> PlainReply(200),
                 fs |-> [fs EXCEPT ![url.path] =
                                      FileNode(fs[url.path].data \o body)]]
      [] url.op = "OPEN" /\ method = "GET" ->
           IF fs[url.path].type # "FILE"
           THEN [reply |-> PlainReply(404), fs |-> fs]
           ELSE [reply |-> Reply(200,
                                 Some(Len(Slice(fs[url.path].data, url.offset,
                                                url.length))),
                                 NoLocation,
                                 Slice(fs[url.path].data, url.offset, url.length),
                                 NoStatus, <<>>),
                 fs |-> fs]
      [] OTHER -> [reply |-> PlainReply(404), fs |-> fs]

\* One request as the servers answer it.  A refused request gets the
\* answer's status and changes nothing; an answer whose status is the one
\* the server gives anyway is the request served.
Served(fs, to, method, url, body, ans) ==
    IF to = "namenode" THEN NameNodeServe(fs, method, url, ans)
    ELSE DataNodeServe(fs, method, url, body)

Serve(fs, to, method, url, body, ans) ==
    IF ans.status = 0
       \/ ans.status = Served(fs, to, method, url, body, ans).reply.status
    THEN Served(fs, to, method, url, body, ans)
    ELSE [reply |-> PlainReply(ans.status), fs |-> fs]

\* -------------------------------------------------------------------- state
\* remote:      the remote namespace.
\* http_client: the field self.http_client of the WebHDFS instance (an
\*              index into conns, 0 = None); DFS is one instance shared by
\*              every caller (webhdfs.py:253).
\* conns:       every HTTPConnection created so far; open = not closed.
\* fr:          per caller, the frame of the operation it is running: its
\*              position pc, its arguments and locals, its requests so far
\*              (log) and the exception in flight (exc).
\* stream:      the HdfsFileWrapper object, once constructed.
VARIABLES remote, http_client, conns, fr, stream

vars == <<remote, http_client, conns, fr, stream>>

\* Callers of the client.  A caller starts an operation only while fewer
\* than MaxConns connections are on record.
Callers == {1, 2}
MaxConns == 2

\* Each caller works on a path of its own.
PathsOf(c) == IF c = 1 THEN {"/a"} ELSE {"/b"}

\* ------------------------------------------------------------------- client
\* DATANODES (webhdfs.py:10-11) and DATANODES.get(host, host).
DATANODES ==
    [h \in {"data-1", "data-2"} |->
        IF h = "data-1" THEN "10.1.1.1" ELSE "10.1.1.2"]

\* A variant of webhdfs.py:229 that leaves the host as the coordinator
\* names it.
translate_none(host) == host

\* webhdfs.py:229  DATANODES.get(host, host)
translate(host) ==
    IF host \in DOMAIN DATANODES THEN DATANODES[host] ELSE host

\* webhdfs.py:225-235: the redirect target of a reply's Location header, the
\* host translated.  response_msg['location'] raises KeyError if absent.
_get_node_info(response_msg) ==
    [host |-> translate(response_msg.location.host),
     port |-> response_msg.location.port,
     url |-> response_msg.location.url]

\* webhdfs.py:221-223: a new HTTPConnection, made by caller c.
_get_http_client(cs, c, to, host, port) ==
    Append(cs, [to |-> to, host |-> host, port |-> port, open |-> TRUE,
                owner |-> c])

\* client.close()
conn_close(cs, client) == [cs EXCEPT ![client].open = FALSE]

\* client.request(): HTTPConnection connects again by itself when it is used
\* after close().
conn_use(cs, client) == [cs EXCEPT ![client].open = TRUE]

\* A variant of the comparison at webhdfs.py:247 that lets the default
\* status 200 pass whatever the request expects.
StatusMismatch_accept200(status, expected_code) ==
    status # expected_code /\ status # DEFAULT_EXPECTED_CODE

\* webhdfs.py:247  response.status != expected_code
StatusMismatch(status, expected_code) == status # expected_code

NoArgs == [method |-> "", url |-> Url("", ""), expected |-> 0]
NoFile == PyFile("none", <<>>, 0)
NoLocalFile == [exists |-> FALSE, data |-> <<>>]
EmptyLocalFile == [exists |-> TRUE, data |-> <<>>]

IdleFrame ==
    [pc |-> "idle", op |-> "none", path |-> "", stack |-> <<>>,
     nn |-> NoArgs, reply |-> NoReply, exc |-> "none", log |-> <<>>,
     before |-> NoNode, src |-> NoFile, append |-> FALSE, data |-> <<>>,
     queue |-> <<>>, rc |-> 0, target |-> NoLocalFile, offset |-> 0,
     length |-> None, result |-> NoStatus, names |-> <<>>, ret |-> <<>>,
     closes |-> <<>>]

\* webhdfs.py:240-251 on connection `client`: what is sent, the reply, and
\* whether HdfsException is raised (msg: the URL, method and status its
\* message is formatted from).  Gives the log entry, the reply and the
\* namespace after.
_request(fs, cs, client, method, url, expected_code, body, ans) ==
    LET sent == IF url.ctx THEN url ELSE [url EXCEPT !.ctx = TRUE]
        out == Serve(fs, cs[client].to, method, sent, body, ans)
    IN [entry |-> [conn |-> client, owner |-> cs[client].owner,
                   to |-> cs[client].to, host |-> cs[client].host,
                   port |-> cs[client].port, method |-> method, url |-> sent,
                   body |-> body, status |-> out.reply.status,
                   expected |-> expected_code,
                   length |-> out.reply.length,
                   located |-> out.reply.location.some,
                   location |-> out.reply.location,
                   raised |-> StatusMismatch(out.reply.status, expected_code),
                   msg |-> IF StatusMismatch(out.reply.status, expected_code)
                           THEN <<sent, method, out.reply.status>>
                           ELSE <<>>],
        reply |-> out.reply,
        fs |-> out.fs,
        exc |-> IF StatusMismatch(out.reply.status, expected_code)
                THEN "HdfsException" ELSE "none"]

\* Return to the caller's continuation.
Pop(f) == [f EXCEPT !.pc = Head(f.stack), !.stack = Tail(f.stack)]

\* The operation is over: it returned, or raised f.exc.
Finish(f) == [f EXCEPT !.pc = "done", !.stack = <<>>]

CanStart(c) == fr[c].pc = "idle" /\ Len(conns) < MaxConns

\* The frame of a call that begins with a coordinator request:
\*     self._reset_namenode_client()
\*     try: self._request(self.http_client, method, url, expected)
\*     finally: self.http_client.close()
\* and goes on at the positions of `stack`.
Call(f, method, url, expected_code, stack) ==
    [f EXCEPT !.pc = "reset",
              !.nn = [method |-> method, url |-> url,
                      expected |-> expected_code],
              !.stack = stack \o f.stack]

Begin(op, path, method, url, expected_code, stack) ==
    Call([IdleFrame EXCEPT !.op = op, !.path = path, !.before = remote[path]],
         method, url, expected_code, stack)

\* webhdfs.py:237-238 (as called at 46, 56, 71, 113, 132, 165, 182, 196, 215)
_reset_namenode_client(c) ==
    /\ fr[c].pc = "reset"
    /\ conns' = _get_http_client(conns, c, "namenode", NAMENODE.host,
                                 NAMENODE.port)
    /\ http_client' = Len(conns) + 1
    /\ fr' = [fr EXCEPT ![c].pc = "request"]
    /\ UNCHANGED <<remote, stream>>

\* The coordinator request of the try: it goes out on whatever
\* self.http_client holds now.
NameNodeRequest(c) ==
    /\ fr[c].pc = "request"
    /\ \E ans \in NameNodeAnswers :
         LET r == _request(remote, conns, http_client, fr[c].nn.method,
                           fr[c].nn.url, fr[c].nn.expected, <<>>, ans)
         IN /\ remote' = r.fs
            /\ conns' = conn_use(conns, http_client)
            /\ fr' = [fr EXCEPT ![c].pc = "close",
                                ![c].log = Append(@, r.entry),
                                ![c].reply = r.reply,
                                ![c].exc = r.exc]
    /\ UNCHANGED <<http_client, stream>>

\* The finally: self.http_client.close(), again on what the field holds now.
NameNodeClose(c) ==
    /\ fr[c].pc = "close"
    /\ conns' = conn_close(conns, http_client)
    /\ fr' = [fr EXCEPT ![c] = Pop([fr[c] EXCEPT !.closes = Append(@, http_client)])]
    /\ UNCHANGED <<remote, http_client, stream>>

\* webhdfs.py:43-50
mkdir(c) ==
    /\ CanStart(c)
    /\ \E path \in PathsOf(c) :
         fr' = [fr EXCEPT ![c] = Begin("mkdir", path, "PUT", Url(path, "MKDIRS"),
                                       DEFAULT_EXPECTED_CODE, <<"done">>)]
    /\ UNCHANGED <<remote, http_client, conns, stream>>

\* webhdfs.py:53-60
rmdir(c) ==
    /\ CanStart(c)
    /\ \E path \in PathsOf(c) :
         fr' = [fr EXCEPT ![c] = Begin("rmdir", path, "DELETE",
                                       Url(path, "DELETE"),
                                       DEFAULT_EXPECTED_CODE, <<"done">>)]
    /\ UNCHANGED <<remote, http_client, conns, stream>>

\* webhdfs.py:212-219
delete(c) ==
    /\ CanStart(c)
    /\ \E path \in PathsOf(c) :
         fr' = [fr EXCEPT ![c] = Begin("delete", path, "DELETE",
                                       Url(path, "DELETE"),
                                       DEFAULT_EXPECTED_CODE, <<"done">>)]
    /\ UNCHANGED <<remote, http_client, conns, stream>>

\* webhdfs.py:162-174
listdir(c) ==
    /\ CanStart(c)
    /\ \E path \in PathsOf(c) :
         fr' = [fr EXCEPT ![c] = Begin("listdir", path, "GET",
                                       Url(path, "LISTSTATUS"),
                                       DEFAULT_EXPECTED_CODE,
                                       <<"listdir_names", "done">>)]
    /\ UNCHANGED <<remote, http_client, conns, stream>>

\* webhdfs.py:168, 171-174: json.loads of the body (ValueError if it is not
\* JSON), then the pathSuffix of each entry in the order given.
listdir_names(c) ==
    /\ fr[c].pc = "listdir_names"
    /\ fr' = [fr EXCEPT ![c] =
                IF fr[c].exc # "none" THEN Pop(fr[c])
                ELSE IF fr[c].reply.json.type # "LIST"
                     THEN Pop([fr[c] EXCEPT !.exc = "ValueError"])
                     ELSE Pop([fr[c] EXCEPT !.names = fr[c].reply.names])]
    /\ UNCHANGED <<remote, http_client, conns, stream>>

\* webhdfs.py:193-201
getinfo(c) ==
    /\ CanStart(c)
    /\ \E path \in PathsOf(c) :
         fr' = [fr EXCEPT ![c] = Begin("getinfo", path, "GET",
                                       Url(path, "GETFILESTATUS"), 200,
                                       <<"getinfo_json", "done">>)]
    /\ UNCHANGED <<remote, http_client, conns, stream>>

\* webhdfs.py:199: return json.loads(response.read()), the FileStatus.
getinfo_json(c) ==
    /\ fr[c].pc = "getinfo_json"
    /\ fr' = [fr EXCEPT ![c] =
                IF fr[c].exc # "none" THEN Pop(fr[c])
                ELSE IF fr[c].reply.json.type \notin {"FILE", "DIRECTORY"}
                     THEN Pop([fr[c] EXCEPT !.exc = "ValueError"])
                     ELSE Pop([fr[c] EXCEPT !.result = fr[c].reply.json])]
    /\ UNCHANGED <<remote, http_client, conns, stream>>

\* webhdfs.py:110-126, top-level call.  The data appended continue the
\* labelling of the file's bytes.
appendToFile(c) ==
    /\ CanStart(c)
    /\ \E path \in PathsOf(c) :
       \E n \in 0..(MaxLen - Len(remote[path].data)) :
         fr' = [fr EXCEPT ![c] =
                  [Begin("appendToFile", path, "POST", Url(path, "APPEND"), 307,
                         <<"append_redirect", "done">>)
                     EXCEPT !.data = Following(Len(remote[path].data), n)]]
    /\ UNCHANGED <<remote, http_client, conns, stream>>

\* A variant of webhdfs.py:119-126 that sends the POST on the data-node
\* connection the upload already has (the target of the create) instead of
\* one made for the location just received.
appendToFile_redirect_reuse(c) ==
    /\ fr[c].pc = "append_redirect"
    /\ IF fr[c].exc # "none"
       THEN /\ fr' = [fr EXCEPT ![c] = Pop(fr[c])]
            /\ UNCHANGED <<remote, conns>>
       ELSE IF ~fr[c].reply.location.some
       THEN /\ fr' = [fr EXCEPT ![c] = Pop([fr[c] EXCEPT !.exc = "KeyError"])]
            /\ UNCHANGED <<remote, conns>>
       ELSE \E ans \in DataNodeAnswers :
              LET node == _get_node_info(fr[c].reply)
                  fresh == _get_http_client(conns, c, "datanode",
                                            node.host, node.port)
                  redirect_client == IF fr[c].rc # 0 THEN fr[c].rc
                                     ELSE Len(conns) + 1
                  r == _request(remote, fresh, redirect_client, "POST",
                                node.url, 200, fr[c].data, ans)
              IN /\ remote' = r.fs
                 /\ conns' = fresh
                 /\ fr' = [fr EXCEPT ![c] =
                             Pop([fr[c] EXCEPT !.log = Append(@, r.entry),
                                               !.reply = r.reply,
                                               !.exc = r.exc])]
    /\ UNCHANGED <<http_client, stream>>

\* webhdfs.py:119-126: follow the redirect with POST data, and close the
\* data-node connection whatever happens.
appendToFile_redirect(c) ==
    /\ fr[c].pc = "append_redirect"
    /\ IF fr[c].exc # "none"
       THEN /\ fr' = [fr EXCEPT ![c] = Pop(fr[c])]
            /\ UNCHANGED <<remote, conns>>
       ELSE IF ~fr[c].reply.location.some
       THEN /\ fr' = [fr EXCEPT ![c] = Pop([fr[c] EXCEPT !.exc = "KeyError"])]
            /\ UNCHANGED <<remote, conns>>
       ELSE \E ans \in DataNodeAnswers :
              LET node == _get_node_info(fr[c].reply)
                  redirect_client == Len(conns) + 1
                  r == _request(remote,
                                _get_http_client(conns, c, "datanode",
                                                 node.host, node.port),
                                redirect_client, "POST", node.url, 200,
                                fr[c].data, ans)
              IN /\ remote' = r.fs
                 /\ conns' = conn_close(
                                _get_http_client(conns, c, "datanode",
                                                 node.host, node.port),
                                redirect_client)
                 /\ fr' = [fr EXCEPT ![c] =
                             Pop([fr[c] EXCEPT !.log = Append(@, r.entry),
                                               !.reply = r.reply,
                                               !.exc = r.exc])]
    /\ UNCHANGED <<http_client, stream>>

\* The sources copyFromLocal is given: a local file (opened from a path at
\* webhdfs.py:66, or passed in), an uploaded file with chunks(), or any
\* other readable object; each holds some bytes and is at its start.
UploadChunkSizes == {TRUNK_SIZE, TRUNK_SIZE + 1}
Sources ==
    {PyFile("file", d, 0) : d \in Contents}
    \cup {PyFile("filelike", d, 0) : d \in Contents}
    \cup {PyFile("uploaded", d, cs) : d \in Contents, cs \in UploadChunkSizes}

\* webhdfs.py:63-76
copyFromLocal(c) ==
    /\ CanStart(c)
    /\ \E path \in PathsOf(c), source_file \in Sources, append \in BOOLEAN :
         fr' = [fr EXCEPT ![c] =
                  [Begin("copyFromLocal", path, "PUT", Url(path, "CREATE"), 307,
                         <<"copy_redirect">>)
                     EXCEPT !.src = source_file, !.append = append]]
    /\ UNCHANGED <<remote, http_client, conns, stream>>

\* A variant of webhdfs.py:81-104 without the seek(0) of line 94: the loop
\* starts reading where the size probe left the cursor.
UploadPlan_noRewind(source_file, append) ==
    IF ~append
    THEN [body |-> file_readall_data(source_file),
          f |-> file_readall_next(source_file), chunked |-> FALSE]
    ELSE IF source_file.kind = "uploaded" /\ multiple_chunks(source_file)
    THEN [body |-> <<>>, f |-> source_file, chunked |-> TRUE]
    ELSE IF source_file.kind = "file"
    THEN IF file_read_data(file_seek(source_file, TRUNK_SIZE), 1) # <<>>
         THEN [body |-> <<>>,
               f |-> file_read_next(file_seek(source_file, TRUNK_SIZE), 1),
               chunked |-> TRUE]
         ELSE [body |-> file_readall_data(
                          file_read_next(file_seek(source_file, TRUNK_SIZE), 1)),
               f |-> file_readall_next(
                          file_read_next(file_seek(source_file, TRUNK_SIZE), 1)),
               chunked |-> FALSE]
    ELSE [body |-> file_readall_data(source_file),
          f |-> file_readall_next(source_file), chunked |-> FALSE]

\* webhdfs.py:81-104: what the data-node PUT carries and where the source
\* file stands after it; chunked says that appends follow.
UploadPlan(source_file, append) ==
    IF ~append
    THEN [body |-> file_readall_data(source_file),
          f |-> file_readall_next(source_file), chunked |-> FALSE]
    ELSE IF source_file.kind = "uploaded" /\ multiple_chunks(source_file)
    THEN [body |-> <<>>, f |-> source_file, chunked |-> TRUE]
    ELSE IF source_file.kind = "file"
    THEN IF file_read_data(file_seek(source_file, TRUNK_SIZE), 1) # <<>>
         THEN [body |-> <<>>, f |-> file_seek(source_file, 0),
               chunked |-> TRUE]
         ELSE [body |-> file_readall_data(
                          file_read_next(file_seek(source_file, TRUNK_SIZE), 1)),
               f |-> file_readall_next(
                          file_read_next(file_seek(source_file, TRUNK_SIZE), 1)),
               chunked |-> FALSE]
    ELSE [body |-> file_readall_data(source_file),
          f |-> file_readall_next(source_file), chunked |-> FALSE]

\* webhdfs.py:105-107, the finally of the append=True branch.
CloseSource(f) == IF f.append THEN [f EXCEPT !.src = file_close(@)] ELSE f

\* webhdfs.py:77-108 up to the first append: follow the redirect with the
\* PUT.  If the PUT raises, redirect_client.close() at line 108 is not
\* reached.
copyFromLocal_redirect(c) ==
    /\ fr[c].pc = "copy_redirect"
    /\ IF fr[c].exc # "none"
       THEN /\ fr' = [fr EXCEPT ![c] = Finish(fr[c])]
            /\ UNCHANGED <<remote, conns>>
       ELSE IF ~fr[c].reply.location.some
       THEN /\ fr' = [fr EXCEPT ![c] = Finish([fr[c] EXCEPT !.exc = "KeyError"])]
            /\ UNCHANGED <<remote, conns>>
       ELSE \E ans \in DataNodeAnswers :
              LET node == _get_node_info(fr[c].reply)
                  redirect_client == Len(conns) + 1
                  plan == UploadPlan(fr[c].src, fr[c].append)
                  r == _request(remote,
                                _get_http_client(conns, c, "datanode",
                                                 node.host, node.port),
                                redirect_client, "PUT", node.url, 201,
                                plan.body, ans)
                  f1 == [fr[c] EXCEPT !.log = Append(@, r.entry),
                                      !.reply = r.reply, !.exc = r.exc,
                                      !.rc = redirect_client,
                                      !.src = plan.f,
                                      !.queue = IF plan.chunked
                                                   /\ plan.f.kind = "uploaded"
                                                THEN chunks(plan.f) ELSE <<>>]
              IN /\ remote' = r.fs
                 /\ IF r.exc # "none"
                    THEN /\ conns' = _get_http_client(conns, c, "datanode",
                                                      node.host, node.port)
                         /\ fr' = [fr EXCEPT ![c] = Finish(CloseSource(f1))]
                    ELSE IF plan.chunked
                    THEN /\ conns' = _get_http_client(conns, c, "datanode",
                                                      node.host, node.port)
                         /\ fr' = [fr EXCEPT ![c] = [f1 EXCEPT !.pc = "copy_loop"]]
                    ELSE /\ conns' = conn_close(
                                        _get_http_client(conns, c, "datanode",
                                                         node.host, node.port),
                                        redirect_client)
                         /\ fr' = [fr EXCEPT ![c] = Finish(CloseSource(f1))]
    /\ UNCHANGED <<http_client, stream>>

\* A variant of webhdfs.py:97 that reads one byte more than TRUNK_SIZE.
NextChunk_oversize(f) ==
    IF f.src.kind = "uploaded"
    THEN IF f.queue = <<>> THEN <<>> ELSE Head(f.queue)
    ELSE file_read_data(f.src, TRUNK_SIZE + 1)

\* The next chunk of the source: the next of chunks() (webhdfs.py:88), or
\* source_file.read(TRUNK_SIZE) (webhdfs.py:97).
NextChunk(f) ==
    IF f.src.kind = "uploaded"
    THEN IF f.queue = <<>> THEN <<>> ELSE Head(f.queue)
    ELSE file_read_data(f.src, TRUNK_SIZE)

AfterChunk(f) ==
    IF f.src.kind = "uploaded"
    THEN [f EXCEPT !.queue = IF f.queue = <<>> THEN <<>> ELSE Tail(f.queue)]
    ELSE [f EXCEPT !.src = file_read_next(f.src, TRUNK_SIZE)]

\* A variant of webhdfs.py:88-89, 96-100 that swallows the exception of an
\* append and goes on with the next chunk.
copyFromLocal_loop_goes_on(c) ==
    /\ fr[c].pc = "copy_loop"
    /\ IF NextChunk(fr[c]) = <<>>
       THEN /\ fr' = [fr EXCEPT ![c] = Finish(CloseSource(AfterChunk(fr[c])))]
            /\ conns' = conn_close(conns, fr[c].rc)
       ELSE /\ fr' = [fr EXCEPT ![c] =
                        Call([AfterChunk(fr[c]) EXCEPT !.data = NextChunk(fr[c]),
                                                       !.exc = "none"],
                             "POST", Url(fr[c].path, "APPEND"), 307,
                             <<"append_redirect", "copy_loop">>)]
            /\ UNCHANGED conns
    /\ UNCHANGED <<remote, http_client, stream>>

\* webhdfs.py:88-89, 96-100, 105-108: one turn of the loop.  An append that
\* raised ends the upload through the finally; a source that is exhausted
\* ends it with redirect_client.close(); otherwise the chunk is appended.
copyFromLocal_loop(c) ==
    /\ fr[c].pc = "copy_loop"
    /\ IF fr[c].exc # "none"
       THEN /\ fr' = [fr EXCEPT ![c] = Finish(CloseSource(fr[c]))]
            /\ UNCHANGED conns
       ELSE IF NextChunk(fr[c]) = <<>>
       THEN /\ fr' = [fr EXCEPT ![c] = Finish(CloseSource(AfterChunk(fr[c])))]
            /\ conns' = conn_close(conns, fr[c].rc)
       ELSE /\ fr' = [fr EXCEPT ![c] =
                        Call([AfterChunk(fr[c]) EXCEPT !.data = NextChunk(fr[c])],
                             "POST", Url(fr[c].path, "APPEND"), 307,
                             <<"append_redirect", "copy_loop">>)]
            /\ UNCHANGED conns
    /\ UNCHANGED <<remote, http_client, stream>>

\* webhdfs.py:129-138
copyToLocal(c) ==
    /\ CanStart(c)
    /\ \E path \in PathsOf(c) :
         fr' = [fr EXCEPT ![c] = Begin("copyToLocal", path, "GET",
                                       Url(path, "OPEN"), 307,
                                       <<"download_redirect">>)]
    /\ UNCHANGED <<remote, http_client, conns, stream>>

\* webhdfs.py:139-159.  Line 150 reads `reponse`, a name bound nowhere: once
\* the data node has answered and the target has been opened for writing,
\* NameError is raised; the with-block and the finally still close the
\* target and the connection.
copyToLocal_redirect(c) ==
    /\ fr[c].pc = "download_redirect"
    /\ IF fr[c].exc # "none"
       THEN /\ fr' = [fr EXCEPT ![c] = Finish(fr[c])]
            /\ UNCHANGED <<remote, conns>>
       ELSE IF fr[c].reply.length = None
       THEN /\ fr' = [fr EXCEPT ![c] =
                        Finish([fr[c] EXCEPT !.target = EmptyLocalFile])]
            /\ UNCHANGED <<remote, conns>>
       ELSE IF ~fr[c].reply.location.some
       THEN /\ fr' = [fr EXCEPT ![c] = Finish([fr[c] EXCEPT !.exc = "KeyError"])]
            /\ UNCHANGED <<remote, conns>>
       ELSE \E ans \in DataNodeAnswers :
              LET node == _get_node_info(fr[c].reply)
                  redirect_client == Len(conns) + 1
                  r == _request(remote,
                                _get_http_client(conns, c, "datanode",
                                                 node.host, node.port),
                                redirect_client, "GET", node.url,
                                DEFAULT_EXPECTED_CODE, <<>>, ans)
              IN /\ remote' = r.fs
                 /\ conns' = conn_close(
                                _get_http_client(conns, c, "datanode",
                                                 node.host, node.port),
                                redirect_client)
                 /\ fr' = [fr EXCEPT ![c] =
                             Finish([fr[c] EXCEPT
                                       !.log = Append(@, r.entry),
                                       !.reply = r.reply,
                                       !.rc = redirect_client,
                                       !.exc = IF r.exc # "none" THEN r.exc
                                               ELSE "NameError",
                                       !.target = IF r.exc # "none"
                                                  THEN NoLocalFile
                                                  ELSE EmptyLocalFile])]
    /\ UNCHANGED <<http_client, stream>>

\* The offsets and lengths OPEN is called with.
OpenLengths == {None} \cup {Some(n) : n \in 0..MaxLen}

\* webhdfs.py:177-187.  The frame of a call open(path, offset, length) that
\* goes on at `stack` once the reply is there.
OpenCall(f, path, offset, length, stack) ==
    Call([f EXCEPT !.offset = offset, !.length = length],
         "GET",
         [Url(path, "OPEN") EXCEPT !.offset = Some(offset), !.length = length],
         307, <<"open_redirect">> \o stack)

open(c) ==
    /\ CanStart(c)
    /\ \E path \in PathsOf(c), offset \in 0..MaxLen, length \in OpenLengths :
         fr' = [fr EXCEPT ![c] =
                  OpenCall([IdleFrame EXCEPT !.op = "open", !.path = path,
                                             !.before = remote[path]],
                           path, offset, length, <<"done">>)]
    /\ UNCHANGED <<remote, http_client, conns, stream>>

\* webhdfs.py:188-191: the reply of the data node is returned; nothing
\* closes redirect_client.
open_redirect(c) ==
    /\ fr[c].pc = "open_redirect"
    /\ IF fr[c].exc # "none"
       THEN /\ fr' = [fr EXCEPT ![c] = Pop(fr[c])]
            /\ UNCHANGED <<remote, conns>>
       ELSE IF ~fr[c].reply.location.some
       THEN /\ fr' = [fr EXCEPT ![c] = Pop([fr[c] EXCEPT !.exc = "KeyError"])]
            /\ UNCHANGED <<remote, conns>>
       ELSE \E ans \in DataNodeAnswers :
              LET node == _get_node_info(fr[c].reply)
                  redirect_client == Len(conns) + 1
                  r == _request(remote,
                                _get_http_client(conns, c, "datanode",
                                                 node.host, node.port),
                                redirect_client, "GET", node.url,
                                DEFAULT_EXPECTED_CODE, <<>>, ans)
              IN /\ remote' = r.fs
                 /\ conns' = _get_http_client(conns, c, "datanode", node.host,
                                              node.port)
                 /\ fr' = [fr EXCEPT ![c] =
                             Pop([fr[c] EXCEPT !.log = Append(@, r.entry),
                                               !.reply = r.reply,
                                               !.rc = redirect_client,
                                               !.exc = r.exc])]
    /\ UNCHANGED <<http_client, stream>>

\* The caller has the result or the exception and goes on.  Once no caller
\* is inside an operation the connections of the finished ones are no
\* longer followed.
Forget(c) ==
    /\ fr[c].pc = "done"
    /\ fr' = [fr EXCEPT ![c] = IdleFrame]
    /\ IF \A d \in Callers \ {c} : fr[d].pc = "idle"
       THEN conns' = <<>> /\ http_client' = 0
       ELSE UNCHANGED <<conns, http_client>>
    /\ UNCHANGED <<remote, stream>>

\* ---------------------------------------------------------- HdfsFileWrapper
\* The object: its fields as __init__ sets them; live once __init__ has
\* returned.  fp is the buffer of small-file mode.
NoStream ==
    [live |-> FALSE, is_string |-> FALSE, offset |-> 0, blksize |-> 0,
     length |-> 0, path_name |-> "", fp |-> NoFile]

\* Block sizes a wrapper is built with, and the arguments of seek and read.
MaxBlk == 2
BlockSizes == 1..MaxBlk
SeekOffsets == (0 - 1)..(MaxLen + 1)
Whences == {0, 1, 2}
ReadSizes == {None} \cup {Some(n) : n \in 0..MaxLen}

\* webhdfs.py:321-322
tell(s) == s.offset

\* StringIO.seek(pos, mode) on the buffer of small-file mode.
buffer_seek(fp, offset, whence) ==
    [fp EXCEPT !.pos = Max(0, IF whence = 1 THEN fp.pos + offset
                              ELSE IF whence = 2 THEN Len(fp.data) + offset
                              ELSE offset)]

\* webhdfs.py:256-261: the fields are set and DFS.getsize(path_name) asks
\* getinfo for the FileStatus.
HdfsFileWrapper(c) ==
    /\ CanStart(c)
    /\ ~stream.live
    /\ \E path \in PathsOf(c), blksize \in BlockSizes :
         /\ fr' = [fr EXCEPT ![c] =
                     Begin("HdfsFileWrapper", path, "GET",
                           Url(path, "GETFILESTATUS"), 200,
                           <<"getinfo_json", "init_size">>)]
         /\ stream' = [NoStream EXCEPT !.blksize = blksize, !.path_name = path]
    /\ UNCHANGED <<remote, http_client, conns>>

\* webhdfs.py:261-263, 272-274: small files are fetched whole with
\* DFS.open(path_name, offset=0); the others get no buffer.
HdfsFileWrapper_size(c) ==
    /\ fr[c].pc = "init_size"
    /\ IF fr[c].exc # "none"
       THEN /\ fr' = [fr EXCEPT ![c] = Finish(fr[c])]
            /\ stream' = NoStream
       ELSE IF fr[c].result.length <= stream.blksize
       THEN /\ fr' = [fr EXCEPT ![c] =
                        OpenCall(fr[c], stream.path_name, 0, None,
                                 <<"init_buffer">>)]
            /\ stream' = [stream EXCEPT !.length = fr[c].result.length]
       ELSE /\ fr' = [fr EXCEPT ![c] = Finish(fr[c])]
            /\ stream' = [stream EXCEPT !.length = fr[c].result.length,
                                        !.is_string = FALSE, !.live = TRUE]
    /\ UNCHANGED <<remote, http_client, conns>>

\* webhdfs.py:264-271.  StringIO is imported nowhere in webhdfs.py: line 266
\* raises NameError, the finally closes the response, and no object is
\* constructed.
HdfsFileWrapper_buffer(c) ==
    /\ fr[c].pc = "init_buffer"
    /\ fr' = [fr EXCEPT ![c] =
                IF fr[c].exc # "none" THEN Finish(fr[c])
                ELSE Finish([fr[c] EXCEPT !.exc = "NameError"])]
    /\ stream' = NoStream
    /\ UNCHANGED <<remote, http_client, conns>>

\* A variant of webhdfs.py:285-293 in which a seek from the current position
\* leaves the ranged cursor where it is.
seek_current_noop(c) ==
    /\ CanStart(c)
    /\ stream.live
    /\ \E offset \in SeekOffsets, whence \in Whences :
         /\ stream' =
              IF stream.is_string
              THEN [stream EXCEPT !.offset = offset,
                                  !.fp = buffer_seek(@, offset, whence)]
              ELSE IF whence = 2
                   THEN [stream EXCEPT !.offset =
                           stream.length - (IF offset < 0 THEN 0 - offset
                                            ELSE offset)]
                   ELSE IF whence = 1 THEN stream
                   ELSE [stream EXCEPT !.offset = offset]
         /\ fr' = [fr EXCEPT ![c] =
                     Finish([IdleFrame EXCEPT
                               !.op = "seek", !.path = stream.path_name,
                               !.before = remote[stream.path_name],
                               !.offset = offset,
                               !.ret = <<whence, tell(stream)>>])]
    /\ UNCHANGED <<remote, http_client, conns>>

\* webhdfs.py:285-293
seek(c) ==
    /\ CanStart(c)
    /\ stream.live
    /\ \E offset \in SeekOffsets, whence \in Whences :
         /\ stream' =
              IF stream.is_string
              THEN [stream EXCEPT !.offset = offset,
                                  !.fp = buffer_seek(@, offset, whence)]
              ELSE IF whence = 2
                   THEN [stream EXCEPT !.offset =
                           stream.length - (IF offset < 0 THEN 0 - offset
                                            ELSE offset)]
                   ELSE [stream EXCEPT !.offset = offset]
         /\ fr' = [fr EXCEPT ![c] =
                     Finish([IdleFrame EXCEPT
                               !.op = "seek", !.path = stream.path_name,
                               !.before = remote[stream.path_name],
                               !.offset = offset,
                               !.ret = <<whence, tell(stream)>>])]
    /\ UNCHANGED <<remote, http_client, conns>>

\* webhdfs.py:304-309: small-file mode reads the buffer; ranged mode calls
\* DFS.open(path_name, offset=self.offset, length=size).
read(c) ==
    /\ CanStart(c)
    /\ stream.live
    /\ \E size \in ReadSizes :
         IF stream.is_string
         THEN /\ fr' = [fr EXCEPT ![c] =
                          Finish([IdleFrame EXCEPT
                                    !.op = "read", !.path = stream.path_name,
                                    !.before = remote[stream.path_name],
                                    !.offset = stream.fp.pos, !.length = size,
                                    !.ret = IF size.some
                                            THEN file_read_data(stream.fp,
                                                                size.val)
                                            ELSE file_readall_data(stream.fp)])]
              /\ stream' = [stream EXCEPT !.fp =
                              IF size.some THEN file_read_next(@, size.val)
                              ELSE file_readall_next(@)]
         ELSE /\ fr' = [fr EXCEPT ![c] =
                          OpenCall([IdleFrame EXCEPT
                                      !.op = "read", !.path = stream.path_name,
                                      !.before = remote[stream.path_name]],
                                   stream.path_name, stream.offset, size,
                                   <<"read_body">>)]
              /\ UNCHANGED stream
    /\ UNCHANGED <<remote, http_client, conns>>

\* http_response.read() (webhdfs.py:317) gives the body, or raises when the
\* connection breaks before the whole body has arrived.
BodyReads == {"ok", "fails"}

\* A variant of webhdfs.py:310-319 without the clamp of lines 315-316.
read_body_unclamped(c) ==
    /\ fr[c].pc = "read_body"
    /\ IF fr[c].exc # "none"
       THEN /\ fr' = [fr EXCEPT ![c] = Finish(fr[c])]
            /\ UNCHANGED stream
       ELSE /\ \E body_read \in BodyReads :
                 fr' = [fr EXCEPT ![c] =
                          Finish(IF body_read = "ok"
                                 THEN [fr[c] EXCEPT !.ret = fr[c].reply.body]
                                 ELSE [fr[c] EXCEPT !.exc = "IncompleteRead"])]
            /\ stream' = [stream EXCEPT !.offset =
                            IF ~fr[c].length.some THEN stream.length
                            ELSE stream.offset + fr[c].length.val]
    /\ UNCHANGED <<remote, http_client, conns>>

\* webhdfs.py:310-319: the cursor moves by size, or to the end, and what
\* the data node sent is returned; the finally closes the response.
read_body(c) ==
    /\ fr[c].pc = "read_body"
    /\ IF fr[c].exc # "none"
       THEN /\ fr' = [fr EXCEPT ![c] = Finish(fr[c])]
            /\ UNCHANGED stream
       ELSE /\ \E body_read \in BodyReads :
                 fr' = [fr EXCEPT ![c] =
                          Finish(IF body_read = "ok"
                                 THEN [fr[c] EXCEPT !.ret = fr[c].reply.body]
                                 ELSE [fr[c] EXCEPT !.exc = "IncompleteRead"])]
            /\ stream' = [stream EXCEPT !.offset =
                            IF ~fr[c].length.some THEN stream.length
                            ELSE IF stream.offset + fr[c].length.val
                                      > stream.length
                                 THEN stream.length
                                 ELSE stream.offset + fr[c].length.val]
    /\ UNCHANGED <<remote, http_client, conns>>

\* webhdfs.py:295-296 (and 304-309): next() is read(self.blksize).
next(c) ==
    /\ CanStart(c)
    /\ stream.live
    /\ IF stream.is_string
       THEN /\ fr' = [fr EXCEPT ![c] =
                        Finish([IdleFrame EXCEPT
                                  !.op = "next", !.path = stream.path_name,
                                  !.before = remote[stream.path_name],
                                  !.offset = stream.fp.pos,
                                  !.length = Some(stream.blksize),
                                  !.ret = file_read_data(stream.fp,
                                                         stream.blksize),
                                  !.exc = IF file_read_data(stream.fp,
                                                            stream.blksize) = <<>>
                                          THEN "StopIteration" ELSE "none"])]
            /\ stream' = [stream EXCEPT !.fp = file_read_next(@, stream.blksize)]
       ELSE /\ fr' = [fr EXCEPT ![c] =
                        OpenCall([IdleFrame EXCEPT
                                    !.op = "next", !.path = stream.path_name,
                                    !.before = remote[stream.path_name]],
                                 stream.path_name, stream.offset,
                                 Some(stream.blksize), <<"next_body">>)]
            /\ UNCHANGED stream
    /\ UNCHANGED <<remote, http_client, conns>>

\* webhdfs.py:310-319, 297-299: the read of next() ends as any read does;
\* data that are empty raise StopIteration.
next_body(c) ==
    /\ fr[c].pc = "next_body"
    /\ IF fr[c].exc # "none"
       THEN /\ fr' = [fr EXCEPT ![c] = Finish(fr[c])]
            /\ UNCHANGED stream
       ELSE /\ \E body_read \in BodyReads :
                 fr' = [fr EXCEPT ![c] =
                          Finish(IF body_read = "fails"
                                 THEN [fr[c] EXCEPT !.exc = "IncompleteRead"]
                                 ELSE IF fr[c].reply.body = <<>>
                                 THEN [fr[c] EXCEPT !.exc = "StopIteration"]
                                 ELSE [fr[c] EXCEPT !.ret = fr[c].reply.body])]
            /\ stream' = [stream EXCEPT !.offset =
                            IF stream.offset + fr[c].length.val > stream.length
                            THEN stream.length
                            ELSE stream.offset + fr[c].length.val]
    /\ UNCHANGED <<remote, http_client, conns>>

\* webhdfs.py:203-210: what getsize, isfile and isdir make of the FileStatus
\* getinfo returned.
getsize(info) == info.length
isfile(info) == info.type = "FILE"

\* A variant of webhdfs.py:209-210 that asks only whether the path exists.
isdir_exists(info) == info.type \in {"FILE", "DIRECTORY"}

isdir(info) == info.type = "DIRECTORY"

\* ------------------------------------------------------------ specifications
\* One caller using the WebHDFS operations one after the other.
Init ==
    /\ remote \in [FsPaths -> Nodes]
    /\ remote["/b"] = NoNode
    /\ http_client = 0
    /\ conns = <<>>
    /\ fr = [c \in Callers |-> IdleFrame]
    /\ stream = NoStream

Next ==
    \/ mkdir(1) \/ rmdir(1) \/ delete(1) \/ listdir(1) \/ listdir_names(1)
    \/ getinfo(1) \/ getinfo_json(1)
    \/ copyFromLocal(1) \/ copyFromLocal_redirect(1) \/ copyFromLocal_loop(1)
    \/ appendToFile(1) \/ appendToFile_redirect(1)
    \/ copyToLocal(1) \/ copyToLocal_redirect(1)
    \/ open(1) \/ open_redirect(1)
    \/ _reset_namenode_client(1) \/ NameNodeRequest(1) \/ NameNodeClose(1)
    \/ Forget(1)

Spec == Init /\ [][Next]_vars

\* One caller building an HdfsFileWrapper on a remote file and using it.
NextStream ==
    \/ HdfsFileWrapper(1) \/ HdfsFileWrapper_size(1) \/ HdfsFileWrapper_buffer(1)
    \/ seek(1) \/ read(1) \/ read_body(1) \/ next(1) \/ next_body(1)
    \/ getinfo_json(1) \/ open_redirect(1)
    \/ _reset_namenode_client(1) \/ NameNodeRequest(1) \/ NameNodeClose(1)
    \/ Forget(1)

SpecStream == Init /\ [][NextStream]_vars

\* Two callers, each on its own path, sharing the instance DFS.
InitConc ==
    /\ remote \in [FsPaths -> {NoNode, DirNode, FileNode(<<>>)}]
    /\ http_client = 0
    /\ conns = <<>>
    /\ fr = [c \in Callers |-> IdleFrame]
    /\ stream = NoStream

NextConc ==
    \E c \in Callers :
        \/ mkdir(c) \/ delete(c) \/ getinfo(c) \/ getinfo_json(c)
        \/ _reset_namenode_client(c) \/ NameNodeRequest(c) \/ NameNodeClose(c)
        \/ Forget(c)

SpecConc == InitConc /\ [][NextConc]_vars

\* ------------------------------------------------------------------- claims
\* The operation of caller 1: the one caller of Spec and SpecStream.
call == fr[1]

Returned(op) == call.pc = "done" /\ call.op = op /\ call.exc = "none"

\* No request of the operation was refused: each got the status the
\* operation expects.
AllServed == \A i \in 1..Len(call.log) : ~call.log[i].raised

\* What reading all of path p back gives: the body a data node serves for
\* OPEN from offset 0 with no length.
ReadBack(p) ==
    DataNodeServe(remote, "GET",
                  [Url(p, "OPEN") EXCEPT !.ctx = TRUE, !.offset = Some(0)],
                  <<>>).reply

\* C1: round trip.  Whenever copyFromLocal of a source holding B to p has
\* returned without error, p is a file and reading all of it back yields
\* exactly B, whichever upload path was taken, with append=False and with
\* append=True, for sizes below, equal to and above TRUNK_SIZE.
C1_RoundTrip ==
    Returned("copyFromLocal") =>
        /\ ReadBack(call.path).status = 200
        /\ ReadBack(call.path).body = call.src.data

\* C2: connections never leak.  When an operation has returned or raised,
\* every connection on record (the coordinator's and the data node's) is
\* closed.
C2_NoOpenConnection ==
    call.pc = "done" => \A i \in 1..Len(conns) : ~conns[i].open

\* C3: download of a non-empty file.  For a non-empty remote file whose
\* coordinator redirects and whose data node serves the body, copyToLocal
\* returns without error and the target holds the file's content.
C3_Download ==
    (/\ call.pc = "done" /\ call.op = "copyToLocal"
     /\ call.before.type = "FILE" /\ call.before.data # <<>>
     /\ Len(call.log) = 2 /\ AllServed)
    => /\ call.exc = "none"
       /\ call.target.exists
       /\ call.target.data = call.before.data

\* C4: empty-file download.  When the coordinator answers OPEN on a file of
\* length 0 with no reported length and no location, with status 307 or
\* with status 200, copyToLocal creates a zero-length target, opens no
\* data-node connection and does not raise.
C4_EmptyDownload ==
    (/\ call.pc = "done" /\ call.op = "copyToLocal"
     /\ call.before = FileNode(<<>>)
     /\ Len(call.log) >= 1
     /\ call.log[1].status \in {307, 200}
     /\ call.log[1].length = None /\ ~call.log[1].located)
    => /\ call.exc = "none"
       /\ call.target = EmptyLocalFile
       /\ \A i \in 1..Len(conns) : conns[i].to # "datanode"

\* The expected status of a request as the interface documents it: 307 for
\* the coordinator step of create, append and open; 201 for the data-node
\* PUT of create; 200 for everything else.
Documented(e) ==
    IF e.to = "namenode" /\ e.url.op \in {"CREATE", "APPEND", "OPEN"} THEN 307
    ELSE IF e.to = "datanode" /\ e.method = "PUT" THEN 201
    ELSE 200

\* C5: status-mismatch failure.  For every request of every operation,
\* HdfsException is raised if and only if the status of the response
\* differs from the documented expected status of that request; it carries
\* the method, the URL and the status; the operation makes no further
\* request and ends with that exception.
C5_StatusMismatch ==
    /\ \A i \in 1..Len(call.log) :
         LET e == call.log[i]
         IN /\ e.raised <=> e.status # Documented(e)
            /\ e.raised => /\ e.msg = <<e.url, e.method, e.status>>
                           /\ i = Len(call.log)
                           /\ call.exc = "HdfsException"
    /\ call.exc = "HdfsException" =>
         /\ call.log # <<>>
         /\ call.log[Len(call.log)].raised

\* A data-node PUT answered 200 where 201 is expected has raised.
C5_Witness ==
    /\ call.pc = "done" /\ call.exc = "HdfsException"
    /\ Len(call.log) = 2
    /\ call.log[2].to = "datanode" /\ call.log[2].method = "PUT"
    /\ call.log[2].status = 200

\* The bodies of the data-node POSTs among the first n requests, joined in
\* the order the requests were made.
RECURSIVE AppendedBytes(_, _)
AppendedBytes(log, n) ==
    IF n = 0 THEN <<>>
    ELSE AppendedBytes(log, n - 1)
         \o (IF log[n].to = "datanode" /\ log[n].method = "POST"
             THEN log[n].body ELSE <<>>)

\* C6: chunked append preserves order.  An appendToFile that returns
\* without error leaves the file equal to its previous content followed by
\* the data.  In a chunked copyFromLocal the data-node PUT with the empty
\* body has been answered 201 before the first append; then coordinator
\* POST and data-node POST alternate, each answered before the next
\* request is made; the bodies appended so far are, joined, a prefix of the
\* source; and on return they are the whole source, which the file holds.
C6_AppendOrder ==
    /\ Returned("appendToFile") =>
         remote[call.path] = FileNode(call.before.data \o call.data)
    /\ (call.op = "copyFromLocal" /\ Len(call.log) > 2) =>
         /\ call.log[2].to = "datanode" /\ call.log[2].method = "PUT"
         /\ call.log[2].body = <<>> /\ call.log[2].status = 201
         /\ \A i \in 3..Len(call.log) :
              /\ call.log[i].url.op = "APPEND" /\ call.log[i].method = "POST"
              /\ call.log[i].to = (IF i % 2 = 1 THEN "namenode" ELSE "datanode")
              /\ ~call.log[i - 1].raised
              /\ i % 2 = 0 =>
                   /\ call.log[i].body # <<>>
                   /\ AppendedBytes(call.log, i)
                        = SubSeq(call.src.data, 1,
                                 Len(AppendedBytes(call.log, i)))
         /\ Returned("copyFromLocal") =>
              /\ AppendedBytes(call.log, Len(call.log)) = call.src.data
              /\ remote[call.path] = FileNode(call.src.data)

\* A local file of five bytes has gone up in three chunks.
C6_Witness ==
    /\ Returned("copyFromLocal")
    /\ call.src.kind = "file" /\ Len(call.src.data) = 2 * TRUNK_SIZE + 1
    /\ Len(call.log) = 8
    /\ call.log[4].body = <<1, 2>> /\ call.log[6].body = <<3, 4>>
    /\ call.log[8].body = <<5>>

SentInChunks(f) ==
    \/ f.kind = "uploaded" /\ Len(f.data) > f.cs
    \/ f.kind = "file" /\ Len(f.data) > TRUNK_SIZE

ChunkSize(f) == IF f.kind = "uploaded" THEN f.cs ELSE TRUNK_SIZE

C8_SeekTell ==
    /\ (stream.live /\ ~stream.is_string) =>
         /\ stream.length > stream.blksize
         /\ stream.length = Len(remote[stream.path_name].data)
    /\ (/\ call.pc = "done" /\ call.op = "seek" /\ ~stream.is_string
        /\ call.ret[1] = 0 /\ call.offset \in 0..stream.length)
       => tell(stream) = call.offset
    /\ (/\ Returned("read") /\ ~stream.is_string /\ call.length.some
        /\ call.offset \in 0..stream.length)
       => /\ Len(call.log) = 2
          /\ \A i \in 1..2 :
               /\ call.log[i].url.op = "OPEN"
               /\ call.log[i].url.offset = Some(call.offset)
               /\ call.log[i].url.length = call.length
          /\ call.ret = SubSeq(call.before.data, call.offset + 1,
                               Min(call.offset + call.length.val,
                                   stream.length))
          /\ tell(stream) = Min(call.offset + call.length.val, stream.length)

\* read(2) with the cursor at 4 of a file of five bytes has returned the
\* last byte and left the cursor at the end.
C8_Witness ==
    /\ Returned("read") /\ ~stream.is_string
    /\ stream.length = 5 /\ call.offset = 4 /\ call.length = Some(2)
    /\ call.ret = <<5>> /\ tell(stream) = 5

\* C9: tell() is the cursor in both modes.  A wrapper built on a file no
\* longer than the block size, whose requests were all served, exists and
\* is in small-file mode; and for every wrapper tell() is the offset of the
\* first byte the next read returns: the buffer's position in small-file
\* mode, the ranged cursor otherwise.
C9_TellIsCursor ==
    /\ (/\ call.pc = "done" /\ call.op = "HdfsFileWrapper"
        /\ Len(call.log) = 3 /\ AllServed)
       => call.exc = "none" /\ stream.live /\ stream.is_string
    /\ stream.live =>
         tell(stream) = (IF stream.is_string THEN stream.fp.pos
                         ELSE stream.offset)

\* C10: concurrent callers on different paths are independent.  Every
\* request of a caller went out on a connection that caller opened, and
\* every connection a caller closed is one it opened.
C10_Independent ==
    \A c \in Callers :
        /\ \A i \in 1..Len(fr[c].log) : fr[c].log[i].owner = c
        /\ \A i \in 1..Len(fr[c].closes) : conns[fr[c].closes[i]].owner = c

\* C11: a redirect target is never reused.  Every data-node request comes
\* right after a coordinator request of the same invocation that was
\* answered with a location, for the same op (APPEND for an appended chunk,
\* OPEN for a read through open); it goes to the port and URL of that
\* location, at the host _get_node_info makes of it, on a connection no
\* other data-node request of the invocation uses.
C11_FreshTarget ==
    \A i \in 1..Len(call.log) :
        call.log[i].to = "datanode" =>
            /\ i > 1
            /\ call.log[i - 1].to = "namenode"
            /\ ~call.log[i - 1].raised
            /\ call.log[i - 1].location.some
            /\ call.log[i - 1].url.op = call.log[i].url.op
            /\ call.log[i].url = call.log[i - 1].location.url
            /\ call.log[i].port = call.log[i - 1].location.port
            /\ call.log[i].host = _get_node_info(call.log[i - 1]).host
            /\ \A j \in 1..Len(call.log) :
                 (j # i /\ call.log[j].to = "datanode")
                    => call.log[j].conn # call.log[i].conn

\* A chunked upload has appended two chunks: the create and each chunk went
\* to a target of its own.
C11_Witness ==
    /\ call.op = "copyFromLocal" /\ call.pc = "copy_loop"
    /\ Len(call.log) = 6
    /\ call.log[2].conn = 2 /\ call.log[4].conn = 4 /\ call.log[6].conn = 6
    /\ call.log[5].location.some /\ call.log[5].url.op = "APPEND"

\* The host a data-node connection is due: the entry of DATANODES for the
\* host of the location, or that host itself.
Reachable(h) ==
    IF h = "data-1" THEN "10.1.1.1"
    ELSE IF h = "data-2" THEN "10.1.1.2"
    ELSE h

\* C12: address translation.  In every redirecting operation the data-node
\* connection is opened to DATANODES[h] when the host h of the
\* coordinator's location is a key of DATANODES and to h otherwise, and to
\* the port of the location unchanged; the connection never had another
\* address.
C12_Translation ==
    \A i \in 2..Len(call.log) :
        call.log[i].to = "datanode" =>
            /\ call.log[i].host = Reachable(call.log[i - 1].location.host)
            /\ call.log[i].port = call.log[i - 1].location.port
            /\ call.log[i].conn \in 1..Len(conns)
            /\ conns[call.log[i].conn].host = call.log[i].host
            /\ conns[call.log[i].conn].port = call.log[i].port

\* open was redirected to data-1 and has asked 10.1.1.1.
C12_Witness ==
    /\ call.pc = "done" /\ call.op = "open" /\ Len(call.log) = 2
    /\ call.log[1].location.host = "data-1"
    /\ call.log[2].host = "10.1.1.1"
    /\ call.log[2].port = DatanodePort

\* C13: isfile and isdir are mutually exclusive.  For a path whose getinfo
\* succeeds, isfile is true exactly of a file, isdir exactly of a
\* directory, and never both.
C13_FileOrDir ==
    Returned("getinfo") =>
        /\ ~(isfile(call.result) /\ isdir(call.result))
        /\ isfile(call.result) <=> remote[call.path].type = "FILE"
        /\ isdir(call.result) <=> remote[call.path].type = "DIRECTORY"

\* getinfo of a file has succeeded: isfile holds of it and isdir does not.
C13_Witness ==
    /\ Returned("getinfo")
    /\ isfile(call.result) /\ ~isdir(call.result)
    /\ getsize(call.result) = Len(remote[call.path].data)
    /\ getsize(call.result) > 0

\* The cursor of the wrapper: where its next read starts.
Cursor(st) == IF st.is_string THEN st.fp.pos ELSE st.offset

\* C14: iteration is finite and non-restartable, in both modes.  A wrapper
\* can be built on a non-empty file no longer than the block size as on a
\* longer one.  A next() whose requests are served, with the cursor at an offset
\* within the file, yields the at most blksize bytes that follow the
\* cursor and moves the cursor past them; it raises StopIteration exactly
\* when the cursor is at the end, and leaves it there.
C14_Iteration ==
    /\ (/\ call.pc = "done" /\ call.op = "HdfsFileWrapper"
        /\ call.before.type = "FILE" /\ call.before.data # <<>>
        /\ AllServed)
       => /\ call.exc = "none"
          /\ stream.live /\ stream.length = Len(call.before.data)
    /\ (/\ call.pc = "done" /\ call.op = "next" /\ AllServed
        /\ call.exc \in {"none", "StopIteration"}
        /\ call.offset \in 0..stream.length)
       => /\ call.exc = "StopIteration" <=> call.offset = stream.length
          /\ call.exc = "StopIteration" => Cursor(stream) = stream.length
          /\ call.exc = "none" =>
               /\ call.ret # <<>> /\ Len(call.ret) <= stream.blksize
               /\ call.ret = SubSeq(call.before.data, call.offset + 1,
                                    Min(call.offset + stream.blksize,
                                        stream.length))
               /\ Cursor(stream) = call.offset + Len(call.ret)

\* C15 as stated: in ranged mode a seek from the current position (whence
\* 1) does nothing: tell() after the call is tell() before it.
C15_SeekCurrentNoop ==
    (/\ call.pc = "done" /\ call.op = "seek" /\ stream.live
     /\ ~stream.is_string /\ call.ret[1] = 1)
    => tell(stream) = call.ret[2]

\* C15, amended: in ranged mode a seek with whence 1 takes the offset as an
\* absolute position: tell() after the call is the offset given, whatever
\* tell() was before, and a read that follows asks OPEN from that offset.
C15_SeekCurrentAbsolute ==
    /\ (/\ call.pc = "done" /\ call.op = "seek" /\ stream.live
        /\ ~stream.is_string /\ call.ret[1] = 1)
       => tell(stream) = call.offset
    /\ (/\ call.op \in {"read", "next"} /\ call.pc = "request"
        /\ ~stream.is_string)
       => call.nn.url.offset = Some(tell(stream))

\* seek(3, 1) with the cursor at 1 has left tell() at 3, not at 1 or 4.
C15_Witness ==
    /\ call.pc = "done" /\ call.op = "seek"
    /\ stream.live /\ ~stream.is_string
    /\ call.ret = <<1, 1>> /\ call.offset = 3
    /\ tell(stream) = 3

\* The chunks a chunked upload has appended in full when its log has n
\* requests: the first two are the create, each chunk takes two more.
ChunksDone(n) == (n - 3) \div 2

\* C16: no retry, and a partial write on failure.  In a chunked
\* copyFromLocal a request that got an unexpected status is the last one
\* made: nothing is sent again and nothing is sent for a later chunk; the
\* upload raises HdfsException; and the remote file holds exactly the
\* chunks before the failed one, a prefix of the source made of whole
\* chunks.
C16_NoRetry ==
    (call.op = "copyFromLocal" /\ Len(call.log) > 2) =>
        /\ \A i \in 1..Len(call.log) : call.log[i].raised => i = Len(call.log)
        /\ AppendedBytes(call.log, Len(call.log))
             = SubSeq(call.src.data, 1,
                      Len(AppendedBytes(call.log, Len(call.log))))
        /\ call.log[Len(call.log)].raised =>
             /\ call.exc = "HdfsException"
             /\ remote[call.path]
                  = FileNode(SubSeq(call.src.data, 1,
                                    ChunksDone(Len(call.log))
                                       * ChunkSize(call.src)))

\* The data node refused the second chunk of a source of five bytes: the
\* upload has raised and the file holds the first chunk.
C16_Witness ==
    /\ call.pc = "done" /\ call.op = "copyFromLocal"
    /\ call.exc = "HdfsException"
    /\ Len(call.src.data) = 5 /\ ChunkSize(call.src) = 2
    /\ Len(call.log) = 6 /\ call.log[6].raised
    /\ remote[call.path] = FileNode(<<1, 2>>)

\* C17: the empty-file case in every operation that issues OPEN.  When the
\* coordinator answers the OPEN of a file of length 0 with status 307, no
\* reported length and no location, open makes no data-node request, does not raise
\* and gives a zero-length read.
C17_EmptyOpen ==
    (/\ call.pc = "done" /\ call.op = "open"
     /\ call.before = FileNode(<<>>)
     /\ Len(call.log) >= 1
     /\ call.log[1].status = 307
     /\ call.log[1].length = None /\ ~call.log[1].located)
    => /\ call.exc = "none"
       /\ Len(call.log) = 1
       /\ call.reply.body = <<>>

\* C18: a failed ranged read leaves the stream unchanged.  When read(n)
\* has raised, in the coordinator request, in the data-node request or in
\* reading the body, tell() is what it was when the read began.
C18_FailedReadKeepsCursor ==
    (/\ call.pc = "done" /\ call.op = "read" /\ call.exc # "none"
     /\ stream.live /\ ~stream.is_string)
    => tell(stream) = call.offset

\* C19: copyFromLocal releases the source file on every exit path.  When
\* it has returned or raised, the local file it read from is closed, with
\* append=False and with append=True, wherever the failure was.
C19_SourceClosed ==
    (/\ call.pc = "done" /\ call.op = "copyFromLocal"
     /\ call.src.kind = "file")
    => call.src.closed

====
